---- MODULE Spec2Model ----
(***************************************************************************)
(* Model of src/expense_tracker.py: the expense sanitizer, the balance     *)
(* calculator, the settlement planner and the confirmation-gated clear.    *)
(*                                                                         *)
(* Money.  Python floats are modelled as exact decimals.  A binary64       *)
(* value differs from the decimal it stands for by a representation error  *)
(* far below one cent, so the only places where that error decides the     *)
(* outcome are round(x, 2) when x is exactly half-way between two cents    *)
(* and a comparison against a threshold the exact value sits on.  Those    *)
(* outcomes are a choice the model leaves open (the parameters "t" of      *)
(* Round2 and "hi" of the comparisons), drawn with \E by the actions.      *)
(***************************************************************************)
EXTENDS Integers, Sequences, FiniteSets, TLC

VARIABLES
    \* suggest_payments(balances): its argument, locals and position
    balances, debtors, creditors, i, j, settlements, pc,
    \* a caller of the core: the raw batch it holds, what sanitize_all returned
    \* for it, what sanitize_all returned for that result, what
    \* calculate_balances returned for the raw batch, and how far it got
    expenses, cleaned1, cleaned2, sheet, stage,
    \* the direction of the float representation error in this run
    fp,
    \* the objects of a caller: the heap (an object's address is its index),
    \* the heap as it was before the first call, the caller's list of records,
    \* the list the last sanitize_all returned, the number of calls made
    heap, heap0, caller, returned, calls,
    \* the Streamlit session: st.session_state.confirm_clear, .expenses and
    \* .cleared, the JSON file, the danger-zone widgets the last run drew, and
    \* the widget events of the runs so far
    confirm_clear, st_expenses, cleared, file, rendered, log

svars == <<balances, debtors, creditors, i, j, settlements, pc>>
cvars == <<expenses, cleaned1, cleaned2, sheet, stage, fp>>
hvars == <<heap, heap0, caller, returned, calls>>
uvars == <<confirm_clear, st_expenses, cleared, file, rendered, log>>
vars == <<svars, cvars, hvars, uvars>>

(***************************************************************************)
(* Bounds                                                                  *)
(***************************************************************************)
\* settlement amounts are counted in 1/Sub of a cent
Sub == 2
\* largest absolute balance of a sheet handed to suggest_payments, in 1/Sub cent
MaxBal == 6
\* largest amount of a raw record, in cents
MaxAmount == 4
\* largest share of a raw custom split, in cents
MaxShare == 1
\* longest raw equal-split list
MaxLen == 3
\* calls a caller makes on its list of records
MaxCalls == 2
\* script runs of a session
MaxRuns == 7

SheetKeys == <<"A", "B", "C", "D">>
Ties == {-1, 1}

(***************************************************************************)
(* Arithmetic helpers                                                      *)
(***************************************************************************)
Abs(x) == IF x < 0 THEN -x ELSE x
Min(x, y) == IF x <= y THEN x ELSE y

\* round(x, 2) for x >= 0 counted in 1/unit of a cent, in the same unit.  At an
\* exact half-way point the float is larger than the decimal when t = 1 and
\* smaller when t = -1.
RoundMag(x, unit, t) ==
    LET r == x % unit
        base == x - r
    IN  IF 2 * r < unit THEN base
        ELSE IF 2 * r > unit THEN base + unit
        ELSE IF t = 1 THEN base + unit ELSE base

\* round(x, 2): round(-x, 2) = -round(x, 2)
Round2(x, unit, t) == IF x < 0 THEN -RoundMag(-x, unit, t) ELSE RoundMag(x, unit, t)

RECURSIVE SeqSum(_)
SeqSum(s) == IF s = <<>> THEN 0 ELSE Head(s) + SeqSum(Tail(s))

(***************************************************************************)
(* suggest_payments                                                        *)
(***************************************************************************)
\* list.sort(key=lambda x: x[1], reverse=True): stable, descending
RECURSIVE InsertDesc(_, _)
InsertDesc(x, s) ==
    IF s = <<>> THEN <<x>>
    ELSE IF Head(s)[2] >= x[2] THEN <<Head(s)>> \o InsertDesc(x, Tail(s))
    ELSE <<x>> \o s

RECURSIVE SortDesc(_)
SortDesc(s) ==
    IF s = <<>> THEN <<>>
    ELSE InsertDesc(s[Len(s)], SortDesc(SubSeq(s, 1, Len(s) - 1)))

Creditors(b) == SelectSeq(b, LAMBDA x : x[2] > 0)
Debtors(b) == [k \in 1..Len(SelectSeq(b, LAMBDA x : x[2] < 0)) |->
                  <<SelectSeq(b, LAMBDA x : x[2] < 0)[k][1],
                    -SelectSeq(b, LAMBDA x : x[2] < 0)[k][2]>>]

\* lines 66-73: partition, sort, i, j = 0, 0
Partition ==
    /\ pc = "start"
    /\ creditors' = SortDesc(Creditors(balances))
    /\ debtors' = SortDesc(Debtors(balances))
    /\ settlements' = <<>>
    /\ i' = 1
    /\ j' = 1
    /\ pc' = "loop"
    /\ UNCHANGED <<balances, cvars, hvars, uvars>>

\* one cent, the 0.01 of lines 84 and 131, in the unit of the settlement amounts
Cent == Sub

\* line 83: payment = round(min(debt, credit), 2)
PaymentMax(debt, credit, t) == Round2(IF debt >= credit THEN debt ELSE credit, Sub, t)
PaymentHalf(debt, credit, t) == Round2(Min(debt, credit) \div 2, Sub, t)
Payment(debt, credit, t) == Round2(Min(debt, credit), Sub, t)

\* line 84: if payment < 0.01
NegligibleNever(payment) == FALSE
Negligible(payment) == payment < Cent

\* lines 91-92: round(debt - payment, 2), round(credit - payment, 2)
Remaining(amount, payment, t) == Round2(amount - payment, Sub, t)

\* lines 93-96: a cursor moves on when its entry is exactly 0
ExhaustedAlways(rest) == TRUE
Exhausted(rest) == rest = 0

\* lines 75-96: one iteration of the while loop
LoopBody(t1, t2, t3) ==
    LET debtor == debtors[i][1]
        debt == debtors[i][2]
        creditor == creditors[j][1]
        credit == creditors[j][2]
        payment == Payment(debt, credit, t1)
        newDebt == Remaining(debt, payment, t2)
        newCredit == Remaining(credit, payment, t3)
    IN  IF debtor = creditor
        THEN /\ IF debt > credit
                THEN j' = j + 1 /\ i' = i
                ELSE i' = i + 1 /\ j' = j
             /\ UNCHANGED <<debtors, creditors, settlements>>
        ELSE IF Negligible(payment)
        THEN /\ IF debt <= credit
                THEN i' = i + 1 /\ j' = j
                ELSE j' = j + 1 /\ i' = i
             /\ UNCHANGED <<debtors, creditors, settlements>>
        ELSE /\ settlements' = Append(settlements, <<debtor, creditor, payment>>)
             /\ debtors' = [debtors EXCEPT ![i] = <<debtor, newDebt>>]
             /\ creditors' = [creditors EXCEPT ![j] = <<creditor, newCredit>>]
             /\ i' = IF Exhausted(newDebt) THEN i + 1 ELSE i
             /\ j' = IF Exhausted(newCredit) THEN j + 1 ELSE j

LoopStep ==
    /\ pc = "loop"
    /\ i <= Len(debtors) /\ j <= Len(creditors)
    /\ \E t1 \in Ties, t2 \in Ties, t3 \in Ties : LoopBody(t1, t2, t3)
    /\ UNCHANGED <<balances, pc, cvars, hvars, uvars>>

\* line 97: the loop condition fails, return settlements
Return ==
    /\ pc = "loop"
    /\ ~(i <= Len(debtors) /\ j <= Len(creditors))
    /\ pc' = "done"
    /\ UNCHANGED <<balances, debtors, creditors, i, j, settlements, cvars, hvars, uvars>>

Sheets == {b \in [1..Len(SheetKeys) -> (-MaxBal..MaxBal)] : TRUE}

\* the variables of suggest_payments while it is not running
SettleIdle ==
    /\ balances = <<>>
    /\ debtors = <<>>
    /\ creditors = <<>>
    /\ i = 1
    /\ j = 1
    /\ settlements = <<>>
    /\ pc = "idle"

\* the variables of the caller of the core while there is none
CoreIdle ==
    /\ expenses = <<>>
    /\ cleaned1 = <<>>
    /\ cleaned2 = <<>>
    /\ sheet = <<>>
    /\ stage = 0
    /\ fp = [t |-> 1, hi |-> FALSE]

\* the variables of the heap while no caller holds objects
HeapIdle ==
    /\ heap = <<>>
    /\ heap0 = <<>>
    /\ caller = <<>>
    /\ returned = <<>>
    /\ calls = 0

\* the variables of the session while there is none
UIIdle ==
    /\ confirm_clear = FALSE
    /\ st_expenses = <<>>
    /\ cleared = FALSE
    /\ file = <<>>
    /\ rendered = "none"
    /\ log = <<>>

InitSettle ==
    /\ CoreIdle
    /\ HeapIdle
    /\ UIIdle
    /\ \E f \in Sheets : balances = [k \in 1..Len(SheetKeys) |-> <<SheetKeys[k], f[k]>>]
    /\ debtors = <<>>
    /\ creditors = <<>>
    /\ i = 1
    /\ j = 1
    /\ settlements = <<>>
    /\ pc = "start"

NextSettle == Partition \/ LoopStep \/ Return

SpecSettle == InitSettle /\ [][NextSettle]_vars

(***************************************************************************)
(* Properties of suggest_payments (checked under SpecSettle)               *)
(***************************************************************************)
SheetIndex == 1..Len(balances)
NumCreditors == Cardinality({k \in SheetIndex : balances[k][2] > 0})
NumDebtors == Cardinality({k \in SheetIndex : balances[k][2] < 0})
\* every value of the sheet is a multiple of 0.01
AllCents == \A k \in SheetIndex : balances[k][2] % Cent = 0
SheetSum == SeqSum([k \in SheetIndex |-> balances[k][2]])
AmountsWhere(pos, p) ==
    [k \in 1..Len(settlements) |->
        IF settlements[k][pos] = p THEN settlements[k][3] ELSE 0]
\* what p pays as a debtor and receives as a creditor over the whole plan
Paid(p) == SeqSum(AmountsWhere(1, p))
Received(p) == SeqSum(AmountsWhere(2, p))

\* C2: for a sheet of multiples of 0.01 that sums to zero, adding each payment
\* to its debtor's balance and subtracting it from its creditor's balance
\* leaves every balance exactly zero once suggest_payments has returned.
C2_SettlementZeroesBalances ==
    (pc = "done" /\ AllCents /\ SheetSum = 0) =>
        \A k \in SheetIndex :
            balances[k][2] + Paid(balances[k][1]) - Received(balances[k][1]) = 0

\* two creditors and two debtors settled with three transfers
C2_Witness ==
    /\ pc = "done" /\ AllCents /\ SheetSum = 0
    /\ NumCreditors = 2 /\ NumDebtors = 2
    /\ Len(settlements) = 3

\* C3 as stated: for every sheet the number of transfers is at most
\* creditors + debtors - 1.
C3_TransferCountAnySheet ==
    pc = "done" => Len(settlements) <= NumCreditors + NumDebtors - 1

\* C3 amended: for every sheet of multiples of 0.01 with at least one
\* non-zero entry, the number of transfers is at most creditors + debtors - 1.
C3_TransferCount ==
    (pc = "done" /\ AllCents /\ NumCreditors + NumDebtors >= 1) =>
        Len(settlements) <= NumCreditors + NumDebtors - 1

\* the bound is met: two creditors, two debtors, three transfers out of a
\* sheet that does not sum to zero
C3_Witness ==
    /\ pc = "done" /\ AllCents /\ SheetSum # 0
    /\ NumCreditors = 2 /\ NumDebtors = 2
    /\ Len(settlements) = 3

\* C6: every emitted triple has debtor # creditor and an amount of at least
\* 0.01, for any sheet (multiples of 0.01 or not), at every point of the loop.
C6_NoSelfPaymentPositiveAmount ==
    \A k \in 1..Len(settlements) :
        /\ settlements[k][1] # settlements[k][2]
        /\ settlements[k][3] >= Cent

\* a transfer emitted right after a negligible pairing was skipped: the plan
\* is one longer while both cursors together moved past more than one entry
C6_Witness ==
    /\ pc = "done" /\ ~AllCents
    /\ Len(settlements) >= 1
    /\ \E k \in 1..Len(debtors) : debtors[k][2] # 0 /\ debtors[k][2] < Cent /\ k < i

\* C10: for a sheet of multiples of 0.01, summing to zero or not, debtors of
\* the plan have a negative balance, creditors a positive one, nobody pays more
\* than they owe and nobody receives more than they are owed.
C10_NoOverPayment ==
    AllCents =>
        /\ \A k \in 1..Len(settlements) :
              /\ \E d \in SheetIndex :
                    balances[d][1] = settlements[k][1] /\ balances[d][2] < 0
              /\ \E c \in SheetIndex :
                    balances[c][1] = settlements[k][2] /\ balances[c][2] > 0
        /\ \A k \in SheetIndex :
              /\ balances[k][2] < 0 => Paid(balances[k][1]) <= -balances[k][2]
              /\ balances[k][2] > 0 => Received(balances[k][1]) <= balances[k][2]

\* a sheet that does not sum to zero: a debtor is left owing after the plan
C10_Witness ==
    /\ pc = "done" /\ AllCents /\ SheetSum < 0
    /\ Len(settlements) >= 2
    /\ \E k \in SheetIndex :
          balances[k][2] < 0 /\ Paid(balances[k][1]) < -balances[k][2]

(***************************************************************************)
(* Raw expense records                                                     *)
(*                                                                         *)
(* amount:       [kind, val]; kind "num" is a number of val cents,         *)
(*               "missing" no amount key, "null" a JSON null, "text" a     *)
(*               string that is no number ("abc")                          *)
(* participants: [kind, names, shares]; kind "list" is a list of names,    *)
(*               "dict" a mapping whose k-th key is names[k] with value    *)
(*               shares[k] cents, in insertion order, "other" any other    *)
(*               shape                                                     *)
(***************************************************************************)
RawPayers == {"A", " B"}
ListNames == {"A", "B", " A", ""}
RawKeys == <<"A", "B", " C", "">>
CleanNames == <<"A", "B", "C">>

\* str.strip() on the names the model draws from
Strip(s) == CASE s = " A" -> "A" [] s = " B" -> "B" [] s = " C" -> "C" [] OTHER -> s

Amounts ==
    [kind : {"num"}, val : 0..MaxAmount] \cup [kind : {"missing", "null", "text"}, val : {0}]

\* the keys of a raw mapping: any of RawKeys, inserted in that order
KeyLists ==
    {SelectSeq(RawKeys, LAMBDA n : n \in S) : S \in SUBSET {RawKeys[k] : k \in 1..Len(RawKeys)}}

Participants ==
    UNION {[kind : {"list"}, names : [1..n -> ListNames], shares : {<<>>}] : n \in 0..MaxLen}
    \cup {[kind |-> "dict", names |-> ks, shares |-> sh] :
            ks \in KeyLists, sh \in UNION {[1..n -> 0..MaxShare] : n \in 0..Len(RawKeys)}}
    \cup [kind : {"other"}, names : {<<>>}, shares : {<<>>}]

RawRecords ==
    {r \in [payer : RawPayers, amount : Amounts, participants : Participants] :
        Len(r.participants.shares) = IF r.participants.kind = "dict"
                                     THEN Len(r.participants.names) ELSE 0}

(***************************************************************************)
(* sanitize_expense, sanitize_all                                          *)
(***************************************************************************)
\* float(e.get("amount", 0) or 0), lines 40 and 105: a missing key and a null
\* give 0; on text float() raises ValueError
FloatRaises(a) == a.kind = "text"
AmountOf(a) == IF a.kind = "num" THEN a.val ELSE 0

\* round(n / d, 2) in cents for integers n and d > 0: the integer nearest to
\* n / d, which Round2 gives when n / d is counted in 1/d of a cent
RoundDiv(n, d, t) == Round2(n, d, t) \div d

\* cleaned[name] = share, lines 120-121: a dict keeps the place of a key it has
RECURSIVE PutAt(_, _, _, _)
PutAt(names, shares, name, share) ==
    IF names = <<>> THEN [names |-> <<name>>, shares |-> <<share>>]
    ELSE IF Head(names) = name
    THEN [names |-> names, shares |-> <<share>> \o Tail(shares)]
    ELSE LET rest == PutAt(Tail(names), Tail(shares), name, share)
         IN  [names |-> <<Head(names)>> \o rest.names,
              shares |-> <<Head(shares)>> \o rest.shares]

\* lines 112-121: strip the keys, drop the blank ones
RECURSIVE CleanDict(_, _, _)
CleanDict(names, shares, acc) ==
    IF names = <<>> THEN acc
    ELSE CleanDict(Tail(names), Tail(shares),
                   IF Strip(Head(names)) # ""
                   THEN PutAt(acc.names, acc.shares, Strip(Head(names)), Head(shares))
                   ELSE acc)

\* line 110: [p.strip() for p in participants if p and str(p).strip()]
CleanList(names) ==
    LET kept == SelectSeq(names, LAMBDA n : n # "" /\ Strip(n) # "")
    IN  [k \in 1..Len(kept) |-> Strip(kept[k])]

\* lines 123-125: the zero-sum fallback share, round(amount / len(cleaned), 2)
FallbackShare(amount, n, t) == RoundDiv(amount, n, t)

\* line 126: abs(total - amount) > 0.01; on the threshold the float error decides
OffByMoreThanCent(total, amount, hi) ==
    \/ Abs(total - amount) > 1
    \/ Abs(total - amount) = 1 /\ hi

\* lines 129-133: the rounding remainder goes to the first key
AddRemainder(scaled, amount) ==
    LET diff == amount - SeqSum(scaled)
    IN  IF Abs(diff) >= 1 THEN [scaled EXCEPT ![1] = scaled[1] + diff] ELSE scaled

\* lines 122-134: the shares of a cleaned mapping
NormalizeShares(shares, amount, f) ==
    LET total == SeqSum(shares)
        n == Len(shares)
    IN  IF total = 0 /\ n > 0
        THEN [k \in 1..n |-> FallbackShare(amount, n, f.t)]
        ELSE IF OffByMoreThanCent(total, amount, f.hi) /\ total > 0
        THEN AddRemainder([k \in 1..n |-> RoundDiv(shares[k] * amount, total, f.t)], amount)
        ELSE shares

\* lines 104-137, for a record on which float() does not raise
sanitize_expense(e, f) ==
    LET amount == AmountOf(e.amount)
        parts == e.participants
    IN  [payer |-> Strip(e.payer),
         amount |-> e.amount,
         participants |->
            IF parts.kind = "list"
            THEN [kind |-> "list", names |-> CleanList(parts.names), shares |-> <<>>]
            ELSE IF parts.kind = "dict"
            THEN LET c == CleanDict(parts.names, parts.shares,
                                    [names |-> <<>>, shares |-> <<>>])
                 IN  [kind |-> "dict", names |-> c.names,
                      shares |-> NormalizeShares(c.shares, amount, f)]
            ELSE [kind |-> "list", names |-> <<>>, shares |-> <<>>]]

\* lines 140-147: a record whose sanitize_expense raises is skipped
RECURSIVE sanitize_all(_, _)
sanitize_all(es, f) ==
    IF es = <<>> THEN <<>>
    ELSE IF FloatRaises(Head(es).amount) THEN sanitize_all(Tail(es), f)
    ELSE <<sanitize_expense(Head(es), f)>> \o sanitize_all(Tail(es), f)

(***************************************************************************)
(* get_all_people, calculate_balances                                      *)
(***************************************************************************)
Range(s) == {s[k] : k \in 1..Len(s)}

\* lines 22-30
get_all_people(es) ==
    UNION {{es[k].payer} \cup Range(es[k].participants.names) : k \in 1..Len(es)}

RECURSIVE Lcm(_, _)
Lcm(n, m) == IF \A k \in 1..n : m % k = 0 THEN m ELSE Lcm(n, m + 1)
\* balances are accumulated in 1/Den of a cent, so that amount / len is exact
Den == Lcm(MaxLen, 1)

Count(names, p) == Cardinality({k \in 1..Len(names) : names[k] = p})
ShareOf(parts, p) ==
    SeqSum([k \in 1..Len(parts.names) |-> IF parts.names[k] = p THEN parts.shares[k] ELSE 0])

\* line 47, 50, 55: balances[payer] += amount
PayerCreditForgotten(e, p) == 0
PayerCredit(e, p) == IF e.payer = p THEN AmountOf(e.amount) * Den ELSE 0

\* lines 43-55: what one record takes from person p, in 1/Den of a cent
Debit(e, p) ==
    LET parts == e.participants
    IN  IF parts.kind = "dict" THEN ShareOf(parts, p) * Den
        ELSE IF Len(parts.names) = 0 THEN 0
        ELSE Count(parts.names, p) * ((AmountOf(e.amount) * Den) \div Len(parts.names))

\* lines 38-55: the loop over the sanitized records
RECURSIVE Fold(_, _)
Fold(es, p) ==
    IF es = <<>> THEN 0
    ELSE PayerCredit(Head(es), p) - Debit(Head(es), p) + Fold(Tail(es), p)

\* lines 58-61: round to 2 decimals, force |balance| < 0.01 to 0.0; in cents
Settle2(x, t) ==
    LET r == Round2(x, Den, t) \div Den
    IN  IF Abs(r) < 1 THEN 0 ELSE r

\* lines 35-36: the keys of the sheet, listed in the order of CleanNames
People(clean) == SelectSeq(CleanNames, LAMBDA n : n \in get_all_people(clean))

\* the direction of the float error of each person's accumulated balance
TieChoices(clean) == [1..Len(People(clean)) -> Ties]

\* lines 35-62, on the sanitized batch
BalanceSheet(clean, ts) ==
    LET people == People(clean)
    IN  [k \in 1..Len(people) |-> <<people[k], Settle2(Fold(clean, people[k]), ts[k])>>]

\* lines 32-62
calculate_balances(es, f, ts) == BalanceSheet(sanitize_all(es, f), ts)

(***************************************************************************)
(* A caller of the core                                                    *)
(***************************************************************************)
\* a second record of the batch: A pays 0.03 for A, B and C
Other ==
    [payer |-> "A", amount |-> [kind |-> "num", val |-> 3],
     participants |-> [kind |-> "list", names |-> <<"A", "B", "C">>, shares |-> <<>>]]

SanitizeAll ==
    /\ stage = 0
    /\ cleaned1' = sanitize_all(expenses, fp)
    /\ stage' = 1
    /\ UNCHANGED <<expenses, cleaned2, sheet, fp, svars, hvars, uvars>>

SanitizeAgain ==
    /\ stage = 1
    /\ cleaned2' = sanitize_all(cleaned1, fp)
    /\ stage' = 2
    /\ UNCHANGED <<expenses, cleaned1, sheet, fp, svars, hvars, uvars>>

CalculateBalances ==
    /\ stage = 2
    /\ \E ts \in TieChoices(sanitize_all(expenses, fp)) :
          sheet' = calculate_balances(expenses, fp, ts)
    /\ stage' = 3
    /\ UNCHANGED <<expenses, cleaned1, cleaned2, fp, svars, hvars, uvars>>

InitCore ==
    /\ SettleIdle
    /\ HeapIdle
    /\ UIIdle
    /\ \E e \in RawRecords, rest \in {<<>>, <<Other>>} : expenses = <<e>> \o rest
    /\ fp \in [t : Ties, hi : BOOLEAN]
    /\ cleaned1 = <<>>
    /\ cleaned2 = <<>>
    /\ sheet = <<>>
    /\ stage = 0

NextCore == SanitizeAll \/ SanitizeAgain \/ CalculateBalances

SpecCore == InitCore /\ [][NextCore]_vars

(***************************************************************************)
(* Properties of the sanitizer and the balance calculator (SpecCore)       *)
(***************************************************************************)
SheetTotal == SeqSum([k \in 1..Len(sheet) |-> sheet[k][2]])
SheetKeySet == {sheet[k][1] : k \in 1..Len(sheet)}
IsCustom(e) == e.participants.kind = "dict"
\* every record that sanitize_all keeps has at least one participant left
AllSplit == \A k \in 1..Len(cleaned1) : cleaned1[k].participants.names # <<>>

C4_IdempotentSanitization ==
    stage >= 2 => cleaned2 = cleaned1

\* C5: after sanitize_expense every share of a custom split is non-negative
\* and the shares sum to the amount within 0.01.
C5_CustomSplitInvariant ==
    stage >= 1 =>
        \A k \in 1..Len(cleaned1) :
            IsCustom(cleaned1[k]) =>
                /\ \A n \in 1..Len(cleaned1[k].participants.shares) :
                      cleaned1[k].participants.shares[n] >= 0
                /\ Abs(SeqSum(cleaned1[k].participants.shares)
                       - AmountOf(cleaned1[k].amount)) <= 1

\* the batch with the amount of every record that has no number set to 0
AsZero(es) ==
    [k \in 1..Len(es) |->
        IF es[k].amount.kind = "num" THEN es[k]
        ELSE [es[k] EXCEPT !.amount = [kind |-> "num", val |-> 0]]]
SameButAmount(a, b) == a.payer = b.payer /\ a.participants = b.participants

\* C7: a record whose amount is missing, null or not a number is processed as
\* a record of amount 0: sanitize_all keeps it (and every other record), and
\* calculate_balances returns the sheet it returns with that amount set to 0,
\* which has the record's payer and participants among its keys.
C7_AmountDefaultsToZero ==
    (\E k \in 1..Len(expenses) : expenses[k].amount.kind # "num") =>
    /\ stage >= 1 =>
          /\ Len(cleaned1) = Len(expenses)
          /\ \A k \in 1..Len(cleaned1) :
                SameButAmount(cleaned1[k], sanitize_all(AsZero(expenses), fp)[k])
    /\ stage = 3 =>
          /\ \E ts \in TieChoices(sanitize_all(AsZero(expenses), fp)) :
                sheet = calculate_balances(AsZero(expenses), fp, ts)
          /\ get_all_people(sanitize_all(AsZero(expenses), fp)) \subseteq SheetKeySet

(***************************************************************************)
(* sanitize_all and calculate_balances on the caller's objects             *)
(*                                                                         *)
(* An object is [type, payer, amount, ref, names, shares].  A "record" is   *)
(* an expense dict: payer, amount and ref, the address of the object its   *)
(* "participants" key holds (0: a value that is neither list nor dict).    *)
(* A "list" or "dict" is a participants container: names and shares.       *)
(***************************************************************************)
NoAmount == [kind |-> "missing", val |-> 0]
RecordObject(payer, amount, ref) ==
    [type |-> "record", payer |-> payer, amount |-> amount, ref |-> ref,
     names |-> <<>>, shares |-> <<>>]
ContainerObject(parts) ==
    [type |-> parts.kind, payer |-> "", amount |-> NoAmount, ref |-> 0,
     names |-> parts.names, shares |-> parts.shares]

\* the record at address a, as sanitize_expense reads it through e.get
RecordAt(h, a) ==
    [payer |-> h[a].payer,
     amount |-> h[a].amount,
     participants |->
        IF h[a].ref = 0 THEN [kind |-> "other", names |-> <<>>, shares |-> <<>>]
        ELSE [kind |-> h[h[a].ref].type, names |-> h[h[a].ref].names,
              shares |-> h[h[a].ref].shares]]

\* line 144: sanitize_expense is handed e.copy(), not e
SanitizedInPlace(original, copy) == original
SanitizedObject(original, copy) == copy

\* lines 143-146 for the record at address a: h is the heap, out the list
\* built so far.  e.copy() is a new dict holding the same values; float()
\* raises on line 105 before anything is stored; otherwise lines 107-136
\* store the payer and a newly built participants container.
SanitizeOne(h, out, a, f) ==
    LET copy == Len(h) + 1
        h1 == Append(h, h[a])
        e == SanitizedObject(a, copy)
        clean == sanitize_expense(RecordAt(h1, e), f)
        fresh == Len(h1) + 1
        h2 == Append(h1, ContainerObject(clean.participants))
    IN  IF FloatRaises(h[a].amount)
        THEN [heap |-> h1, out |-> out]
        ELSE [heap |-> [h2 EXCEPT ![e].payer = clean.payer, ![e].ref = fresh],
              out |-> Append(out, e)]

\* lines 140-147 on the list of addresses es
RECURSIVE SanitizeList(_, _, _, _)
SanitizeList(h, out, es, f) ==
    IF es = <<>> THEN [heap |-> h, out |-> out]
    ELSE LET r == SanitizeOne(h, out, Head(es), f)
         IN  SanitizeList(r.heap, r.out, Tail(es), f)

RecordsAt(h, es) == [k \in 1..Len(es) |-> RecordAt(h, es[k])]

\* the caller runs sanitize_all(records)
CallSanitizeAll ==
    /\ calls < MaxCalls
    /\ LET r == SanitizeList(heap, <<>>, caller, fp)
       IN  heap' = r.heap /\ returned' = r.out
    /\ calls' = calls + 1
    /\ UNCHANGED <<heap0, caller, svars, cvars, uvars>>

\* the caller runs calculate_balances(records): line 34 rebinds the local
\* name to the sanitized list, the sheet is built from it
CallCalculateBalances ==
    /\ calls < MaxCalls
    /\ LET r == SanitizeList(heap, <<>>, caller, fp)
       IN  /\ heap' = r.heap
           /\ \E ts \in TieChoices(RecordsAt(r.heap, r.out)) :
                 sheet' = BalanceSheet(RecordsAt(r.heap, r.out), ts)
    /\ calls' = calls + 1
    /\ UNCHANGED <<heap0, caller, returned, svars, uvars>>
    /\ UNCHANGED <<expenses, cleaned1, cleaned2, stage, fp>>

\* the participants values the caller's records hold
HeapParts ==
    {[kind |-> "list", names |-> <<" A", "", "B">>, shares |-> <<>>],
     [kind |-> "dict", names |-> <<"A", " C", "">>, shares |-> <<1, 1, 1>>],
     [kind |-> "dict", names |-> <<"A", "B">>, shares |-> <<0, 0>>]}
HeapAmounts ==
    {[kind |-> "num", val |-> MaxAmount], [kind |-> "null", val |-> 0],
     [kind |-> "text", val |-> 0]}

\* one or two records; each holds a container of its own, or none, and two
\* records may hold the same container
InitHeap ==
    /\ SettleIdle
    /\ UIIdle
    /\ expenses = <<>> /\ cleaned1 = <<>> /\ cleaned2 = <<>> /\ sheet = <<>> /\ stage = 0
    /\ fp \in [t : Ties, hi : BOOLEAN]
    /\ \E n \in 1..2, parts \in [1..2 -> HeapParts], refs \in [1..2 -> 0..2],
          payers \in [1..2 -> RawPayers], amounts \in [1..2 -> HeapAmounts] :
          /\ \A k \in 1..2 : k > n => payers[k] = "A" /\ amounts[k] = NoAmount /\ refs[k] = 0
          /\ \A k \in 1..2 : parts[k] = parts[1] \/ \E r \in 1..n : refs[r] = k
          /\ heap = [k \in 1..2 |-> ContainerObject(parts[k])]
                    \o [k \in 1..n |-> RecordObject(payers[k], amounts[k], refs[k])]
          /\ caller = [k \in 1..n |-> 2 + k]
    /\ heap0 = heap
    /\ returned = <<>>
    /\ calls = 0

NextHeap == CallSanitizeAll \/ CallCalculateBalances

SpecHeap == InitHeap /\ [][NextHeap]_vars

(***************************************************************************)
(* Properties of the calls on the caller's objects (SpecHeap)              *)
(***************************************************************************)
OldAddresses == 1..Len(heap0)

\* C8: after sanitize_all(records) or calculate_balances(records) every object
\* of the caller (its records, with their payer, and their participants lists
\* and mappings) is as it was; the records sanitize_all returned are new
\* objects and hold participants containers that are new objects too.
C8_CallerDataUnchanged ==
    calls >= 1 =>
        /\ \A a \in OldAddresses : heap[a] = heap0[a]
        /\ \A k \in 1..Len(returned) :
              /\ returned[k] \notin OldAddresses
              /\ heap[returned[k]].ref \notin OldAddresses
              /\ heap[returned[k]].ref # 0

\* both calls were made on two records that hold the same mapping, and the
\* sanitized first record differs from the original in payer and participants
C8_Witness ==
    /\ calls = 2 /\ Len(caller) = 2 /\ Len(returned) = 2 /\ sheet # <<>>
    /\ heap0[caller[1]].ref = heap0[caller[2]].ref
    /\ heap0[caller[1]].ref # 0
    /\ heap[returned[1]].payer # heap0[caller[1]].payer
    /\ RecordAt(heap, returned[1]).participants # RecordAt(heap0, caller[1]).participants

(***************************************************************************)
(* The session: one action per script run, by the event that starts it     *)
(*                                                                         *)
(* st_expenses is st.session_state.expenses, file the JSON file, rendered   *)
(* the buttons the last run drew in the danger zone (a click can only be   *)
(* on a button that is on the page).  log has one entry per run: the       *)
(* event, confirm_clear when the run began, whether the run called         *)
(* clear_expenses and whether it showed the "cleared" message.             *)
(***************************************************************************)
Session == [confirm_clear |-> confirm_clear, st_expenses |-> st_expenses,
            cleared |-> cleared, file |-> file, rendered |-> rendered,
            called |-> FALSE, message |-> FALSE]

\* line 329: the condition under which the confirmation buttons are drawn
ConfirmGateAlways(s) == TRUE
ConfirmGate(s) == s.confirm_clear

\* lines 349-351
ShowCleared(s) ==
    IF s.cleared THEN [s EXCEPT !.cleared = FALSE, !.message = TRUE] ELSE s

\* lines 153-155 and 335
clear_expenses(s) == [s EXCEPT !.file = <<>>, !.called = TRUE]

\* lines 325-351 of a run in which no button of the danger zone was clicked
DangerZoneQuiet(s) ==
    ShowCleared([s EXCEPT !.rendered =
                     IF ConfirmGate(s) THEN "confirm_buttons" ELSE "clear_button"])

\* lines 325-351 of the run started by event ev; st.rerun() ends the run and
\* starts one in which no button is clicked
DangerZone(s, ev) ==
    IF ConfirmGate(s)
    THEN IF ev = "yes"
         THEN DangerZoneQuiet([clear_expenses(s) EXCEPT !.st_expenses = <<>>,
                                                        !.cleared = TRUE,
                                                        !.confirm_clear = FALSE])
         ELSE IF ev = "cancel"
         THEN DangerZoneQuiet([s EXCEPT !.confirm_clear = FALSE])
         ELSE ShowCleared([s EXCEPT !.rendered = "confirm_buttons"])
    ELSE IF ev = "clear_all"
         THEN ShowCleared([s EXCEPT !.confirm_clear = TRUE, !.rendered = "clear_button"])
         ELSE ShowCleared([s EXCEPT !.rendered = "clear_button"])

\* lines 264-265
save_expenses(s) == [s EXCEPT !.file = s.st_expenses]
AddTo(s, e) == save_expenses([s EXCEPT !.st_expenses = Append(s.st_expenses, e)])

\* the state the run leaves and its log entry
Finish(ev, s) ==
    /\ confirm_clear' = s.confirm_clear
    /\ st_expenses' = s.st_expenses
    /\ cleared' = s.cleared
    /\ file' = s.file
    /\ rendered' = s.rendered
    /\ log' = Append(log, [event |-> ev, confirm |-> confirm_clear,
                           called |-> s.called, message |-> s.message])
    /\ UNCHANGED <<svars, cvars, hvars>>

\* the expenses the form builds (lines 249-262): an equal and a custom split
FormExpenses ==
    {[payer |-> "A", amount |-> [kind |-> "num", val |-> MaxAmount],
      participants |-> [kind |-> "list", names |-> <<"A", "B">>, shares |-> <<>>]],
     [payer |-> "B", amount |-> [kind |-> "num", val |-> MaxAmount],
      participants |-> [kind |-> "dict", names |-> <<"A">>, shares |-> <<MaxShare>>]]}

\* a valid form is submitted: lines 264-275, the rerun draws the whole page
AddExpense ==
    /\ Len(log) < MaxRuns
    /\ Len(st_expenses) < MaxLen
    /\ \E e \in FormExpenses : Finish("add", DangerZoneQuiet(AddTo(Session, e)))

\* a click on "Clear All Expenses", which the last run drew
ClickClearAll ==
    /\ Len(log) < MaxRuns
    /\ rendered = "clear_button"
    /\ Finish("clear_all", DangerZone(Session, "clear_all"))

\* a click on "Yes, clear everything"
ClickYes ==
    /\ Len(log) < MaxRuns
    /\ rendered = "confirm_buttons"
    /\ Finish("yes", DangerZone(Session, "yes"))

\* a click on "Cancel"
ClickCancel ==
    /\ Len(log) < MaxRuns
    /\ rendered = "confirm_buttons"
    /\ Finish("cancel", DangerZone(Session, "cancel"))

\* any other interaction (an invalid form, "Show Final Balances"): the script
\* runs to its end and changes nothing but the page
Interact ==
    /\ Len(log) < MaxRuns
    /\ Finish("other", DangerZone(Session, "other"))

\* the state after the first run of a session: lines 169-171 and 325-346
InitUI ==
    /\ SettleIdle
    /\ CoreIdle
    /\ HeapIdle
    /\ file \in {<<>>, <<Other>>}
    /\ st_expenses = file
    /\ confirm_clear = FALSE
    /\ cleared = FALSE
    /\ rendered = "clear_button"
    /\ log = <<>>

NextUI == AddExpense \/ ClickClearAll \/ ClickYes \/ ClickCancel \/ Interact

SpecUI == InitUI /\ [][NextUI]_vars

(***************************************************************************)
(* Properties of the session (SpecUI)                                      *)
(***************************************************************************)
LastRun == log'[Len(log')]

\* C9: a run calls clear_expenses, or empties a non-empty collection or file,
\* only if it began with confirm_clear true and was started by the Yes click;
\* confirm_clear becomes true only in a run started by the Clear All Expenses
\* click; it is false after a run started by Yes or Cancel; a run started by
\* Cancel leaves the collection and the file as they were; and the Yes click
\* is only possible after a Clear All Expenses click later than any Yes or
\* Cancel.
C9_ClearGatedByConfirmation ==
    [][/\ Len(log') = Len(log) + 1
       /\ (\/ LastRun.called
           \/ st_expenses # <<>> /\ st_expenses' = <<>>
           \/ file # <<>> /\ file' = <<>>)
            => confirm_clear /\ LastRun.event = "yes"
       /\ LastRun.event = "yes"
            => /\ LastRun.called /\ st_expenses' = <<>> /\ file' = <<>>
               /\ \E k \in 1..Len(log) :
                     /\ log[k].event = "clear_all"
                     /\ \A m \in (k+1)..Len(log) : log[m].event \notin {"yes", "cancel"}
       /\ (~confirm_clear /\ confirm_clear') => LastRun.event = "clear_all"
       /\ LastRun.event \in {"yes", "cancel"} => ~confirm_clear'
       /\ LastRun.event = "cancel" => st_expenses' = st_expenses /\ file' = file
      ]_vars

\* an expense was added, a clear asked for and cancelled, asked for again and
\* confirmed: the collection and the file are empty and the message was shown
C9_Witness ==
    /\ Len(log) >= 7
    /\ log[1].event = "add"
    /\ log[2].event = "clear_all"
    /\ log[3].event = "other"
    /\ log[4].event = "cancel" /\ ~log[4].called
    /\ log[5].event = "clear_all"
    /\ log[6].event = "other"
    /\ log[7].event = "yes" /\ log[7].called /\ log[7].message
    /\ st_expenses = <<>> /\ file = <<>> /\ ~confirm_clear

====
